---- MODULE Spec2Model ----
(***************************************************************************)
(* Consistent hashing ring of consistent_hashing/ring.py.                  *)
(*                                                                         *)
(* The state is the ConsistentHashingRing object (ring, sorted_server_keys)*)
(* together with the data dictionary of every ServerNode object the caller *)
(* has constructed.  Each public method of the ring is one action; an      *)
(* action models the whole call, including the path on which it raises.    *)
(***************************************************************************)
EXTENDS Integers, Sequences, FiniteSets, TLC

(***************************************************************************)
(* Bounds of the model.                                                    *)
(***************************************************************************)
MaxCalls == 8

(***************************************************************************)
(* hash_fn: int(md5(str(key)).hexdigest(), 16) % 360.  The table holds the *)
(* values of that function on the identifiers the model uses.              *)
(***************************************************************************)
SPACE == 360

hash_fn(key) ==
    CASE key = "can1"   -> 288
      [] key = "can2"   -> 333
      [] key = "can3"   -> 234
      [] key = "can5"   -> 201
      [] key = "can6"   -> 100
      [] key = "can58"  -> 234
      [] key = "key1"   -> 117
      [] key = "key2"   -> 306
      [] key = "key5"   -> 255
      [] key = "key6"   -> 78
      [] key = "key70"  -> 288
      [] key = "key268" -> 100

\* The ServerNode objects the caller constructs, named by their name.
\* can3 and can58 hash to the same position.
Servers == {"can1", "can3", "can6", "can58"}

\* The keys and values the caller passes to add_data and remove_data.
\* key70 hashes to the position of can1.
Keys == {"key1", "key2", "key70"}
Values == {5, 6}
Positions == 0..(SPACE - 1)

VARIABLES
    ring,                \* ConsistentHashingRing.ring: position -> server
    sorted_server_keys,  \* ConsistentHashingRing.sorted_server_keys
    data,                \* ServerNode.data of every constructed server
    call,                \* the last call made on the ring and how it ended
    ncalls,              \* number of calls made so far
    added_with_data,     \* history: some server was added holding data
    inserted,            \* history: keys stored by add_data and not removed
                         \* by remove_data since
    snap,                \* history: the ring and the stores as they were
                         \* before the add_server call that has just ended
    xfer                 \* the transfer_data call in progress, step by step

vars == <<ring, sorted_server_keys, data, call, ncalls, added_with_data,
          inserted, snap, xfer>>

(***************************************************************************)
(* Python dictionaries as functions with a finite domain.                  *)
(***************************************************************************)
EmptyDict == <<>>

DictSet(d, k, v) == [x \in (DOMAIN d) \cup {k} |-> IF x = k THEN v ELSE d[x]]

DictDel(d, k) == [x \in (DOMAIN d) \ {k} |-> d[x]]

(***************************************************************************)
(* ServerNode                                                              *)
(***************************************************************************)
\* insert_data that keeps the value of a key the store already holds
insert_data_keep(store, key, value) ==
    IF key \in DOMAIN store THEN store ELSE DictSet(store, key, value)

\* insert_data: self.data[key] = value (an existing key is overridden)
insert_data(store, key, value) == DictSet(store, key, value)

\* remove_data: del self.data[key]; the caller tests the KeyError case
remove_data_node(store, key) == DictDel(store, key)

(***************************************************************************)
(* bisect.bisect (bisect_right), insort and list.remove on a sorted list.  *)
(* Indices are 0-based as in Python; a[i] of Python is a[i + 1] here.      *)
(***************************************************************************)
RECURSIVE bisect_lohi(_, _, _, _)
bisect_lohi(a, x, lo, hi) ==
    IF lo < hi
    THEN LET mid == (lo + hi) \div 2
         IN  IF x < a[mid + 1]
             THEN bisect_lohi(a, x, lo, mid)
             ELSE bisect_lohi(a, x, mid + 1, hi)
    ELSE lo

\* bisect.bisect_left in place of bisect.bisect: an equal element is not
\* stepped over
RECURSIVE bisect_left_lohi(_, _, _, _)
bisect_left_lohi(a, x, lo, hi) ==
    IF lo < hi
    THEN LET mid == (lo + hi) \div 2
         IN  IF a[mid + 1] < x
             THEN bisect_left_lohi(a, x, mid + 1, hi)
             ELSE bisect_left_lohi(a, x, lo, mid)
    ELSE lo

bisect_left(a, x) == bisect_left_lohi(a, x, 0, Len(a))

bisect(a, x) == bisect_lohi(a, x, 0, Len(a))

\* list.append in place of bisect.insort: the position is put last
insort_append(a, x) == Append(a, x)

insort(a, x) ==
    LET i == bisect(a, x)
    IN  SubSeq(a, 1, i) \o <<x>> \o SubSeq(a, i + 1, Len(a))

InList(a, x) == \E i \in 1..Len(a) : a[i] = x

\* list.pop() in place of list.remove(x): the last element is dropped
list_remove_last(a, x) == SubSeq(a, 1, Len(a) - 1)

list_remove(a, x) ==
    LET i == CHOOSE j \in 1..Len(a) : a[j] = x /\ \A m \in 1..(j - 1) : a[m] # x
    IN  SubSeq(a, 1, i - 1) \o SubSeq(a, i + 1, Len(a))

(***************************************************************************)
(* ConsistentHashingRing                                                   *)
(***************************************************************************)
\* the index with bisect.bisect_left: a position equal to hashed_key is selected
server_index_left(keys, hashed_key) == bisect_left(keys, hashed_key) % Len(keys)

\* bisect.bisect(sorted_server_keys, hashed_key) % len(sorted_server_keys)
server_index(keys, hashed_key) == bisect(keys, hashed_key) % Len(keys)

\* the server the ring (r, keys) selects for a hash position
target_node(r, keys, hashed_key) == r[keys[server_index(keys, hashed_key) + 1]]

\* the neighbour on the other side: the server before node's position
get_predecessor_node(r, keys, node) ==
    r[keys[((bisect_left(keys, hash_fn(node)) + Len(keys) - 1) % Len(keys)) + 1]]

get_successor_node(r, keys, node) == target_node(r, keys, hash_fn(node))

RECURSIVE insert_all(_, _, _, _)
insert_all(d, from_node, to_node, keys) ==
    IF keys = {}
    THEN d
    ELSE LET key == CHOOSE k \in keys : TRUE
             d1 == [d EXCEPT ![to_node] = insert_data(@, key, d[from_node][key])]
         IN  insert_all(d1, from_node, to_node, keys \ {key})

RECURSIVE remove_all(_, _, _)
remove_all(d, from_node, keys) ==
    IF keys = {}
    THEN d
    ELSE LET key == CHOOSE k \in keys : TRUE
             d1 == [d EXCEPT ![from_node] = remove_data_node(@, key)]
         IN  remove_all(d1, from_node, keys \ {key})

\* transfer_data without its second loop: the keys are copied, not moved
transfer_data_copy(d, from_node, to_node, keys) ==
    insert_all(d, from_node, to_node, keys)

\* transfer_data: every key is inserted into to_node, then every key is
\* removed from from_node
transfer_data(d, from_node, to_node, keys) ==
    remove_all(insert_all(d, from_node, to_node, keys), from_node, keys)

\* keys_to_transfer with the comparison of line 58 turned round
keys_to_transfer_above(d, successor_node, node) ==
    {key \in DOMAIN d[successor_node] : hash_fn(key) > hash_fn(node)}

\* keys_to_transfer with <= for the < of line 58
keys_to_transfer_upto(d, successor_node, node) ==
    {key \in DOMAIN d[successor_node] : hash_fn(key) <= hash_fn(node)}

\* keys_to_transfer of add_server
keys_to_transfer(d, successor_node, node) ==
    {key \in DOMAIN d[successor_node] : hash_fn(key) < hash_fn(node)}

Called(op, arg, exc) == [op |-> op, arg |-> arg, exc |-> exc]

\* snap when the last call was no add_server of a server without data
NoSnap == [phase |-> "none"]

\* snap after remove_server(n) has followed such an add_server(n) directly
Restored == [phase |-> "removed"]

\* xfer while no transfer_data call is followed step by step
Idle == [pc |-> "idle"]

Init ==
    /\ ring = EmptyDict
    /\ sorted_server_keys = <<>>
    /\ data = [s \in Servers |-> EmptyDict]
    /\ call = Called("init", "", "none")
    /\ ncalls = 0
    /\ added_with_data = FALSE
    /\ inserted = {}
    /\ snap = NoSnap
    /\ xfer = Idle

\* add_server without the test of line 47: an occupied position is taken over
add_server_overwrite(node) ==
    LET hashed_key == hash_fn(node)
        ring1 == DictSet(ring, hashed_key, node)
        keys1 == insort(sorted_server_keys, hashed_key)
        successor_node == get_successor_node(ring1, keys1, node)
        moved == keys_to_transfer(data, successor_node, node)
    IN  /\ ring' = ring1
        /\ sorted_server_keys' = keys1
        /\ data' = transfer_data(data, successor_node, node, moved)
        /\ call' = Called("add_server", node, "none")

add_server(node) ==
    LET hashed_key == hash_fn(node)
    IN  IF hashed_key \in DOMAIN ring
        THEN /\ call' = Called("add_server", node, "KeyError")
             /\ UNCHANGED <<ring, sorted_server_keys, data>>
        ELSE LET ring1 == DictSet(ring, hashed_key, node)
                 keys1 == insort(sorted_server_keys, hashed_key)
                 successor_node == get_successor_node(ring1, keys1, node)
                 moved == keys_to_transfer(data, successor_node, node)
             IN  /\ ring' = ring1
                 /\ sorted_server_keys' = keys1
                 /\ data' = transfer_data(data, successor_node, node, moved)
                 /\ call' = Called("add_server", node, "none")

remove_server(node) ==
    LET hashed_key == hash_fn(node)
    IN  IF Len(sorted_server_keys) = 0
        THEN /\ call' = Called("remove_server", node, "ZeroDivisionError")
             /\ UNCHANGED <<ring, sorted_server_keys, data>>
        ELSE LET successor_node == get_successor_node(ring, sorted_server_keys, node)
                 data1 == transfer_data(data, node, successor_node, DOMAIN data[node])
             IN  /\ data' = data1
                 /\ IF hashed_key \notin DOMAIN ring
                    THEN /\ call' = Called("remove_server", node, "KeyError")
                         /\ UNCHANGED <<ring, sorted_server_keys>>
                    ELSE /\ ring' = DictDel(ring, hashed_key)
                         /\ IF InList(sorted_server_keys, hashed_key)
                            THEN /\ sorted_server_keys' =
                                        list_remove(sorted_server_keys, hashed_key)
                                 /\ call' = Called("remove_server", node, "none")
                            ELSE /\ call' = Called("remove_server", node, "ValueError")
                                 /\ UNCHANGED sorted_server_keys

\* add_data that returns quietly when no server is registered
add_data_silent(key, value) ==
    IF Len(sorted_server_keys) = 0
    THEN /\ call' = Called("add_data", key, "none")
         /\ UNCHANGED <<ring, sorted_server_keys, data>>
    ELSE LET target == target_node(ring, sorted_server_keys, hash_fn(key))
         IN  /\ data' = [data EXCEPT ![target] = insert_data(@, key, value)]
             /\ call' = Called("add_data", key, "none")
             /\ UNCHANGED <<ring, sorted_server_keys>>

add_data(key, value) ==
    IF Len(sorted_server_keys) = 0
    THEN /\ call' = Called("add_data", key, "ZeroDivisionError")
         /\ UNCHANGED <<ring, sorted_server_keys, data>>
    ELSE LET target == target_node(ring, sorted_server_keys, hash_fn(key))
         IN  /\ data' = [data EXCEPT ![target] = insert_data(@, key, value)]
             /\ call' = Called("add_data", key, "none")
             /\ UNCHANGED <<ring, sorted_server_keys>>

remove_data(key) ==
    IF Len(sorted_server_keys) = 0
    THEN /\ call' = Called("remove_data", key, "ZeroDivisionError")
         /\ UNCHANGED <<ring, sorted_server_keys, data>>
    ELSE LET target == target_node(ring, sorted_server_keys, hash_fn(key))
         IN  IF key \notin DOMAIN data[target]
             THEN /\ call' = Called("remove_data", key, "KeyError")
                  /\ UNCHANGED <<ring, sorted_server_keys, data>>
             ELSE /\ data' = [data EXCEPT ![target] = remove_data_node(@, key)]
                  /\ call' = Called("remove_data", key, "none")
                  /\ UNCHANGED <<ring, sorted_server_keys>>

\* One more call by the driver, while it has calls left to make.
Tick == ncalls < MaxCalls /\ ncalls' = ncalls + 1

AddServer ==
    \E node \in Servers :
        /\ Tick
        /\ add_server(node)
        /\ added_with_data' =
               (added_with_data \/
                   (hash_fn(node) \notin DOMAIN ring /\ DOMAIN data[node] # {}))
        /\ snap' = IF call'.exc = "none" /\ data[node] = EmptyDict
                   THEN [phase |-> "added", ring |-> ring,
                         sorted_server_keys |-> sorted_server_keys, data |-> data]
                   ELSE NoSnap
        /\ UNCHANGED <<inserted, xfer>>

RemoveServer ==
    \E node \in Servers :
        /\ Tick
        /\ remove_server(node)
        /\ snap' = IF snap.phase = "added" /\ call.arg = node
                   THEN Restored
                   ELSE NoSnap
        /\ UNCHANGED <<added_with_data, inserted, xfer>>

AddData ==
    \E key \in Keys : \E value \in Values :
        /\ Tick
        /\ add_data(key, value)
        /\ inserted' = IF call'.exc = "none" THEN inserted \cup {key} ELSE inserted
        /\ snap' = NoSnap
        /\ UNCHANGED <<added_with_data, xfer>>

RemoveData ==
    \E key \in Keys :
        /\ Tick
        /\ remove_data(key)
        /\ inserted' = IF call'.exc = "none" THEN inserted \ {key} ELSE inserted
        /\ snap' = NoSnap
        /\ UNCHANGED <<added_with_data, xfer>>

Next == AddServer \/ RemoveServer \/ AddData \/ RemoveData

Spec == Init /\ [][Next]_vars

\* Membership changes only.  ring and sorted_server_keys, which the lookup
\* reads, are written by add_server and remove_server alone.
NextMembership == AddServer \/ RemoveServer

SpecMembership == Init /\ [][NextMembership]_vars

(***************************************************************************)
(* transfer_data step by step: one action per iteration of its two loops.  *)
(* The call starts from any stores of from_node and to_node and any list   *)
(* of distinct keys of from_node, as add_server and remove_server pass it. *)
(***************************************************************************)
\* the two servers of the transfer; from_node and to_node may be the same
TransferServers == {"can1", "can3"}

Stores == UNION {[D -> Values] : D \in SUBSET Keys}

\* the lists of distinct elements of D
ListsOver(D) ==
    {q \in UNION {[1..n -> D] : n \in 0..Cardinality(D)} :
        \A i \in DOMAIN q : \A j \in DOMAIN q : i # j => q[i] # q[j]}

InitTransfer ==
    /\ ring = EmptyDict
    /\ sorted_server_keys = <<>>
    /\ call = Called("transfer_data", "", "none")
    /\ ncalls = 0
    /\ added_with_data = FALSE
    /\ inserted = {}
    /\ snap = NoSnap
    /\ \E from_node \in TransferServers : \E to_node \in TransferServers :
       \E from_data \in Stores : \E to_data \in Stores :
       \E keys \in ListsOver(DOMAIN from_data) :
           /\ data = [s \in Servers |->
                         IF s = from_node THEN from_data
                         ELSE IF s = to_node THEN to_data
                         ELSE EmptyDict]
           /\ xfer = [pc |-> "insert", from_node |-> from_node, to_node |-> to_node,
                      keys |-> keys, i |-> 0, steps |-> <<>>,
                      data0 |-> [s \in Servers |->
                                    IF s = from_node THEN from_data
                                    ELSE IF s = to_node THEN to_data
                                    ELSE EmptyDict]]

\* one iteration that inserts and removes the key at once
InsertStepThenRemove ==
    /\ xfer.pc = "insert"
    /\ xfer.i < Len(xfer.keys)
    /\ LET key == xfer.keys[xfer.i + 1]
           d1 == [data EXCEPT ![xfer.to_node] =
                      insert_data(@, key, data[xfer.from_node][key])]
       IN  /\ data' = [d1 EXCEPT ![xfer.from_node] = remove_data_node(@, key)]
           /\ xfer' = [xfer EXCEPT !.i = @ + 1,
                           !.steps = @ \o <<<<"insert", key>>, <<"remove", key>>>>]
    /\ UNCHANGED <<ring, sorted_server_keys, call, ncalls, added_with_data,
                   inserted, snap>>

\* lines 36-38: to_node.insert_data(key, from_node.data[key])
InsertStep ==
    /\ xfer.pc = "insert"
    /\ xfer.i < Len(xfer.keys)
    /\ LET key == xfer.keys[xfer.i + 1]
       IN  /\ data' = [data EXCEPT ![xfer.to_node] =
                           insert_data(@, key, data[xfer.from_node][key])]
           /\ xfer' = [xfer EXCEPT !.i = @ + 1,
                           !.steps = Append(@, <<"insert", key>>)]
    /\ UNCHANGED <<ring, sorted_server_keys, call, ncalls, added_with_data,
                   inserted, snap>>

\* the first loop is exhausted, the second starts
InsertLoopEnd ==
    /\ xfer.pc = "insert"
    /\ xfer.i = Len(xfer.keys)
    /\ xfer' = [xfer EXCEPT !.pc = "remove", !.i = 0]
    /\ UNCHANGED <<ring, sorted_server_keys, data, call, ncalls, added_with_data,
                   inserted, snap>>

\* lines 39-41: from_node.remove_data(key); a key the store no longer holds
\* raises KeyError and ends the call
RemoveStep ==
    /\ xfer.pc = "remove"
    /\ xfer.i < Len(xfer.keys)
    /\ LET key == xfer.keys[xfer.i + 1]
       IN  IF key \in DOMAIN data[xfer.from_node]
           THEN /\ data' = [data EXCEPT ![xfer.from_node] = remove_data_node(@, key)]
                /\ xfer' = [xfer EXCEPT !.i = @ + 1,
                                !.steps = Append(@, <<"remove", key>>)]
           ELSE /\ xfer' = [xfer EXCEPT !.pc = "KeyError"]
                /\ UNCHANGED data
    /\ UNCHANGED <<ring, sorted_server_keys, call, ncalls, added_with_data,
                   inserted, snap>>

\* the second loop is exhausted, transfer_data returns
RemoveLoopEnd ==
    /\ xfer.pc = "remove"
    /\ xfer.i = Len(xfer.keys)
    /\ xfer' = [xfer EXCEPT !.pc = "done"]
    /\ UNCHANGED <<ring, sorted_server_keys, data, call, ncalls, added_with_data,
                   inserted, snap>>

NextTransfer == InsertStep \/ InsertLoopEnd \/ RemoveStep \/ RemoveLoopEnd

SpecTransfer == InitTransfer /\ [][NextTransfer]_vars

(***************************************************************************)
(* Vocabulary of the properties.                                           *)
(***************************************************************************)
\* the servers some position of the ring maps to
Registered == {ring[p] : p \in DOMAIN ring}

\* node is the server registered at the position of its own name
IsRegistered(node) ==
    hash_fn(node) \in DOMAIN ring /\ ring[hash_fn(node)] = node

\* the server add_data and remove_data select for key on the current ring
Placement(key) == target_node(ring, sorted_server_keys, hash_fn(key))

\* the keys held by any constructed server, registered or not
AllKeys(d) == UNION {DOMAIN d[s] : s \in Servers}

SetMin(S) == CHOOSE x \in S : \A y \in S : x <= y
SetMax(S) == CHOOSE x \in S : \A y \in S : x >= y

\* the call that just ended was op(arg)
Did(op, arg) == call.op = op /\ call.arg = arg

RingUnchanged ==
    /\ ring' = ring
    /\ sorted_server_keys' = sorted_server_keys
    /\ data' = data

(***************************************************************************)
(* C1: as long as servers are added with empty stores, every key held by a *)
(* registered server is held by the server the placement lookup selects    *)
(* for it on the current ring.                                             *)
(***************************************************************************)
C1_PlacementInvariant ==
    ~added_with_data =>
        \A s \in Registered : \A k \in DOMAIN data[s] : Placement(k) = s

(***************************************************************************)
(* C2: a single add_server or remove_server call leaves the set of keys    *)
(* present across all servers' stores unchanged.                           *)
(***************************************************************************)
C2_NoKeyLoss ==
    [][call'.op \in {"add_server", "remove_server"} =>
          AllKeys(data') = AllKeys(data)]_vars

(***************************************************************************)
(* C3: after any completed call no key is in the store of more than one    *)
(* registered server.                                                      *)
(***************************************************************************)
C3_NoDuplication ==
    \A s1 \in Registered : \A s2 \in Registered :
        s1 # s2 => (DOMAIN data[s1]) \cap (DOMAIN data[s2]) = {}

(***************************************************************************)
(* C4: a successful add_server(n) moves onto n only keys whose hash lies   *)
(* on the arc from the position of n's predecessor to n's own position     *)
(* (both ends taken as part of the arc).                                   *)
(***************************************************************************)
\* the position before h on the ring r, walking counter-clockwise
PredecessorPos(r, h) ==
    LET lower == {p \in DOMAIN r : p < h}
        others == (DOMAIN r) \ {h}
    IN  IF lower # {} THEN SetMax(lower)
        ELSE IF others # {} THEN SetMax(others)
        ELSE h

\* x lies on the clockwise arc from a to b
InArc(x, a, b) ==
    IF a <= b THEN a <= x /\ x <= b ELSE x >= a \/ x <= b

C4_MinimalMovement ==
    [][\A n \in Servers :
          (call'.op = "add_server" /\ call'.arg = n /\ call'.exc = "none") =>
              \A k \in (DOMAIN data'[n]) \ (DOMAIN data[n]) :
                  InArc(hash_fn(k), PredecessorPos(ring', hash_fn(n)), hash_fn(n))]_vars

(***************************************************************************)
(* C5: remove_server on the only registered server raises and leaves ring, *)
(* sorted_server_keys and every store as they were.                        *)
(***************************************************************************)
C5_LastNodeRejected ==
    [][\A n \in Servers :
          (Registered = {n} /\ call'.op = "remove_server" /\ call'.arg = n) =>
              (call'.exc # "none" /\ RingUnchanged)]_vars

(***************************************************************************)
(* C6: a ring with a registered server never becomes empty again.          *)
(***************************************************************************)
C6_NeverEmptyAgain ==
    [][DOMAIN ring # {} => DOMAIN ring' # {}]_vars

(***************************************************************************)
(* C7: remove_server on a server that is not registered raises and leaves  *)
(* ring, sorted_server_keys and every store as they were.                  *)
(***************************************************************************)
C7_UnregisteredRejected ==
    [][\A n \in Servers :
          (~IsRegistered(n) /\ call'.op = "remove_server" /\ call'.arg = n) =>
              (call'.exc # "none" /\ RingUnchanged)]_vars

(***************************************************************************)
(* C8: add_server of a server whose name hashes to an occupied position    *)
(* raises KeyError (the code's duplicate-position error) and leaves ring,  *)
(* sorted_server_keys and every store as they were.                        *)
(***************************************************************************)
C8_DuplicatePositionRejected ==
    [][\A n \in Servers :
          (hash_fn(n) \in DOMAIN ring /\ call'.op = "add_server" /\ call'.arg = n) =>
              (call'.exc = "KeyError" /\ RingUnchanged)]_vars

\* add_server was refused for a server whose position another server
\* occupies, on a ring that holds data
C8_Witness ==
    /\ call.op = "add_server"
    /\ call.exc = "KeyError"
    /\ hash_fn(call.arg) \in DOMAIN ring
    /\ ring[hash_fn(call.arg)] # call.arg
    /\ AllKeys(data) # {}

(***************************************************************************)
(* C9: after every call, completed or failed, sorted_server_keys is the    *)
(* strictly ascending sequence of exactly the positions in ring.           *)
(***************************************************************************)
C9_SortedPositions ==
    /\ \A i \in 1..(Len(sorted_server_keys) - 1) :
           sorted_server_keys[i] < sorted_server_keys[i + 1]
    /\ {sorted_server_keys[i] : i \in 1..Len(sorted_server_keys)} = DOMAIN ring

\* a position was inserted between two registered positions
C9_Witness ==
    /\ Did("add_server", "can3")
    /\ call.exc = "none"
    /\ sorted_server_keys = <<100, 234, 288>>

(***************************************************************************)
(* C10: on a non-empty ring the lookup returns, for every position p, the  *)
(* server at the smallest registered position strictly greater than p, or  *)
(* the server at the smallest registered position when none is greater.    *)
(***************************************************************************)
SuccessorPos(p) ==
    LET greater == {q \in DOMAIN ring : q > p}
    IN  IF greater # {} THEN SetMin(greater) ELSE SetMin(DOMAIN ring)

C10_SuccessorLookup ==
    DOMAIN ring # {} =>
        \A p \in Positions :
            target_node(ring, sorted_server_keys, p) = ring[SuccessorPos(p)]

\* three registered servers: positions below, between, at and above them
C10_Witness ==
    /\ Cardinality(DOMAIN ring) = 3
    /\ target_node(ring, sorted_server_keys, 350) = ring[100]
    /\ target_node(ring, sorted_server_keys, 234) = ring[288]

(***************************************************************************)
(* C11: a successful add_data(key, value) stores the key on one server and *)
(* leaves every other store alone.  As claimed, that server is the one at  *)
(* the first registered position at or after hash(key), so that a key      *)
(* hashing to a registered position is stored on the server there.         *)
(***************************************************************************)
\* the first position of r at or after p, walking clockwise
AtOrAfterPos(r, p) ==
    LET notless == {q \in DOMAIN r : q >= p}
    IN  IF notless # {} THEN SetMin(notless) ELSE SetMin(DOMAIN r)

\* the first position of r strictly after p, walking clockwise
StrictlyAfterPos(r, p) ==
    LET greater == {q \in DOMAIN r : q > p}
    IN  IF greater # {} THEN SetMin(greater) ELSE SetMin(DOMAIN r)

\* the step wrote key into the store of server s and changed nothing else
StoredOn(s, key) ==
    /\ key \in DOMAIN data'[s]
    /\ data' = [data EXCEPT ![s] = DictSet(@, key, data'[s][key])]

C11_OwnerAtOrAfter ==
    [][\A k \in Keys :
          (call'.op = "add_data" /\ call'.arg = k /\ call'.exc = "none") =>
              StoredOn(ring[AtOrAfterPos(ring, hash_fn(k))], k)]_vars

(***************************************************************************)
(* C11 as amended: the server is the one at the first registered position  *)
(* strictly after hash(key) (wrapping to the smallest position); a key     *)
(* hashing to a registered position is stored on that server's successor.  *)
(***************************************************************************)
C11_OwnerStrictlyAfter ==
    [][\A k \in Keys :
          (call'.op = "add_data" /\ call'.arg = k /\ call'.exc = "none") =>
              StoredOn(ring[StrictlyAfterPos(ring, hash_fn(k))], k)]_vars

\* key70 hashes to the position of can1 and was stored on the successor of
\* can1, not on can1
C11_Witness ==
    /\ Did("add_data", "key70")
    /\ call.exc = "none"
    /\ IsRegistered("can1")
    /\ Cardinality(DOMAIN ring) >= 2
    /\ "key70" \in DOMAIN data[ring[StrictlyAfterPos(ring, hash_fn("can1"))]]
    /\ "key70" \notin DOMAIN data["can1"]

(***************************************************************************)
(* C12: remove_server(n) of a registered server on a ring of at least two  *)
(* servers succeeds and moves exactly n's keys: they are all in the store  *)
(* of n's circular successor, n's store is empty, the successor keeps the  *)
(* keys it had, no other store changes, and n's position is gone from ring *)
(* and sorted_server_keys, so that no lookup returns n.                    *)
(***************************************************************************)
\* the positions the identifiers of the model hash to
HashedPositions == {hash_fn(x) : x \in Servers \cup Keys}

C12_RemoveMovesExactly ==
    [][\A n \in Servers :
          (/\ IsRegistered(n)
           /\ Cardinality(DOMAIN ring) >= 2
           /\ call'.op = "remove_server"
           /\ call'.arg = n) =>
              LET successor == ring[StrictlyAfterPos(ring, hash_fn(n))]
              IN  /\ call'.exc = "none"
                  /\ successor # n
                  /\ DOMAIN data'[successor] =
                         (DOMAIN data[successor]) \cup (DOMAIN data[n])
                  /\ \A k \in (DOMAIN data[successor]) \ (DOMAIN data[n]) :
                         data'[successor][k] = data[successor][k]
                  /\ data'[n] = EmptyDict
                  /\ \A s \in Servers \ {n, successor} : data'[s] = data[s]
                  /\ ring' = DictDel(ring, hash_fn(n))
                  /\ ~InList(sorted_server_keys', hash_fn(n))
                  /\ \A p \in HashedPositions :
                         target_node(ring', sorted_server_keys', p) # n]_vars

\* can6 was removed from a ring it shared with can3: can3, its successor,
\* holds key70 (placed on can6) next to key1 (placed on can3)
C12_Witness ==
    /\ Did("remove_server", "can6")
    /\ call.exc = "none"
    /\ ~IsRegistered("can6")
    /\ IsRegistered("can3")
    /\ data["can6"] = EmptyDict
    /\ DOMAIN data["can3"] = {"key1", "key70"}

(***************************************************************************)
(* C14: add_data and remove_data on a ring without registered servers      *)
(* raise ZeroDivisionError (the code's empty-ring error) and leave ring,   *)
(* sorted_server_keys and every store as they were.                        *)
(***************************************************************************)
C14_EmptyRingRejected ==
    [][(DOMAIN ring = {} /\ call'.op \in {"add_data", "remove_data"}) =>
          (call'.exc = "ZeroDivisionError" /\ RingUnchanged)]_vars

\* add_data was refused on an empty ring while an unregistered server still
\* holds the key
C14_Witness ==
    /\ call.op = "add_data"
    /\ call.exc = "ZeroDivisionError"
    /\ ring = EmptyDict
    /\ sorted_server_keys = <<>>
    /\ call.arg \in AllKeys(data)

(***************************************************************************)
(* C16: add_server(n) and remove_server(n) change the stores of at most n  *)
(* and the circular successor of n's position (for add_server on the ring  *)
(* that holds n's position); every other store is left as it was.          *)
(***************************************************************************)
\* the server after position p on ring r, if r has any
SuccessorSet(r, p) ==
    IF DOMAIN r = {} THEN {} ELSE {r[StrictlyAfterPos(r, p)]}

C16_MembershipFrame ==
    [][\A n \in Servers :
          /\ (call'.op = "add_server" /\ call'.arg = n) =>
                 \A s \in Servers \ ({n} \cup SuccessorSet(ring', hash_fn(n))) :
                     data'[s] = data[s]
          /\ (call'.op = "remove_server" /\ call'.arg = n) =>
                 \A s \in Servers \ ({n} \cup SuccessorSet(ring, hash_fn(n))) :
                     data'[s] = data[s]]_vars

\* a server joined two others and took keys from its successor while the
\* third server holds keys as well
C16_Witness ==
    /\ call.op = "add_server"
    /\ call.exc = "none"
    /\ Cardinality(DOMAIN ring) = 3
    /\ data[call.arg] # EmptyDict
    /\ \E s \in Registered \ ({call.arg} \cup SuccessorSet(ring, hash_fn(call.arg))) :
           data[s] # EmptyDict

(***************************************************************************)
(* C17: if every key stored on a registered server is on the server the    *)
(* placement lookup selects, n's store is empty and n's position lies      *)
(* strictly between the smallest and the largest registered position, then *)
(* after add_server(n) every stored key is again on the server the lookup  *)
(* selects.                                                                *)
(***************************************************************************)
\* on ring (r, keys) every key of a registered server's store in d is on the
\* server the lookup selects
PlacedIn(r, keys, d) ==
    \A p \in DOMAIN r : \A k \in DOMAIN d[r[p]] :
        target_node(r, keys, hash_fn(k)) = r[p]

C17_InteriorAddKeepsPlacement ==
    [][\A n \in Servers :
          (/\ call'.op = "add_server"
           /\ call'.arg = n
           /\ DOMAIN ring # {}
           /\ data[n] = EmptyDict
           /\ SetMin(DOMAIN ring) < hash_fn(n)
           /\ hash_fn(n) < SetMax(DOMAIN ring)
           /\ PlacedIn(ring, sorted_server_keys, data)) =>
              PlacedIn(ring', sorted_server_keys', data')]_vars

\* a server was added between can6 and can1, took key1 from can1, and all
\* three keys are where the lookup selects
C17_Witness ==
    /\ call.op = "add_server"
    /\ call.exc = "none"
    /\ hash_fn(call.arg) = 234
    /\ DOMAIN ring = {100, 234, 288}
    /\ DOMAIN data[call.arg] = {"key1"}
    /\ DOMAIN data["can6"] = {"key2", "key70"}
    /\ data["can1"] = EmptyDict
    /\ ~added_with_data
    /\ PlacedIn(ring, sorted_server_keys, data)

(***************************************************************************)
(* C18: for a key whose hash equals the position of the server n being     *)
(* added and that is held by n's successor, add_server(n) leaves the key   *)
(* on the successor, and the placement lookup made after the call selects  *)
(* that same successor.                                                    *)
(***************************************************************************)
C18_BoundaryAgreement ==
    [][\A n \in Servers : \A k \in Keys :
          (/\ call'.op = "add_server"
           /\ call'.arg = n
           /\ call'.exc = "none"
           /\ hash_fn(k) = hash_fn(n)
           /\ k \in DOMAIN data[ring'[StrictlyAfterPos(ring', hash_fn(n))]]) =>
              LET successor == ring'[StrictlyAfterPos(ring', hash_fn(n))]
              IN  /\ k \in DOMAIN data'[successor]
                  /\ data'[successor][k] = data[successor][k]
                  /\ target_node(ring', sorted_server_keys', hash_fn(k)) = successor]_vars

\* can1 joined a ring whose server after position 288 holds key70, which
\* hashes to 288: the key is still there and the lookup selects that server
C18_Witness ==
    /\ Did("add_server", "can1")
    /\ call.exc = "none"
    /\ Cardinality(DOMAIN ring) >= 2
    /\ "key70" \in DOMAIN data[ring[StrictlyAfterPos(ring, hash_fn("can1"))]]
    /\ "key70" \notin DOMAIN data["can1"]
    /\ Placement("key70") = ring[StrictlyAfterPos(ring, hash_fn("can1"))]

(***************************************************************************)
(* C20: every key that add_server or remove_server transfers between two   *)
(* distinct servers has, in the destination's store after the call, the    *)
(* value it had in the source's store before the call.                     *)
(***************************************************************************)
C20_MigrationKeepsValues ==
    [][\A n \in Servers :
          /\ (call'.op = "add_server" /\ call'.arg = n /\ call'.exc = "none") =>
                 LET successor == ring'[StrictlyAfterPos(ring', hash_fn(n))]
                 IN  successor # n =>
                         \A k \in (DOMAIN data[successor]) \ (DOMAIN data'[successor]) :
                             /\ k \in DOMAIN data'[n]
                             /\ data'[n][k] = data[successor][k]
          /\ (call'.op = "remove_server" /\ call'.arg = n /\ DOMAIN ring # {}) =>
                 LET successor == ring[StrictlyAfterPos(ring, hash_fn(n))]
                 IN  successor # n =>
                         \A k \in DOMAIN data[n] :
                             /\ k \in DOMAIN data'[successor]
                             /\ data'[successor][k] = data[n][k]]_vars

\* can6 was removed and can3, its successor, holds key2 and key70 (placed on
\* can6) with the different values they were stored with
C20_Witness ==
    /\ Did("remove_server", "can6")
    /\ call.exc = "none"
    /\ IsRegistered("can3")
    /\ data["can6"] = EmptyDict
    /\ {"key2", "key70"} \subseteq DOMAIN data["can3"]
    /\ data["can3"]["key2"] = 5
    /\ data["can3"]["key70"] = 6

(***************************************************************************)
(* C13: remove_data(key) of a key that add_data stored and remove_data has *)
(* not removed since succeeds and leaves the key in no store, whatever     *)
(* add_server and remove_server calls were made in between.                *)
(***************************************************************************)
C13_InsertedKeyRemovable ==
    [][\A k \in Keys :
          (k \in inserted /\ call'.op = "remove_data" /\ call'.arg = k) =>
              (call'.exc = "none" /\ k \notin AllKeys(data'))]_vars

(***************************************************************************)
(* C19: add_server(n) of a server with an empty store at an unoccupied     *)
(* position, directly followed by remove_server(n), succeeds and leaves    *)
(* ring, sorted_server_keys and every store as they were before the        *)
(* add_server call.                                                        *)
(***************************************************************************)
C19_AddRemoveRoundTrip ==
    [][(snap.phase = "added" /\ call'.op = "remove_server" /\ call'.arg = call.arg) =>
          /\ call'.exc = "none"
          /\ ring' = snap.ring
          /\ sorted_server_keys' = snap.sorted_server_keys
          /\ data' = snap.data]_vars

\* can3 joined can6 and can1, took key1 from can1 and was removed at once:
\* key1 is back on can1
C19_Witness ==
    /\ snap = Restored
    /\ Did("remove_server", "can3")
    /\ call.exc = "none"
    /\ sorted_server_keys = <<100, 288>>
    /\ "key1" \in DOMAIN data["can1"]
    /\ data["can3"] = EmptyDict

(***************************************************************************)
(* C15: within one transfer_data call every moved key is inserted into the *)
(* destination before any moved key is removed from the source: no remove  *)
(* step precedes an insert step, and at the first remove step each key of  *)
(* the call has been inserted.                                             *)
(***************************************************************************)
C15_InsertsBeforeRemoves ==
    xfer.pc # "idle" =>
        \A i \in 1..Len(xfer.steps) :
            xfer.steps[i][1] = "remove" =>
                /\ \A j \in 1..Len(xfer.steps) :
                       xfer.steps[j][1] = "insert" => j < i
                /\ \A n \in 1..Len(xfer.keys) :
                       \E j \in 1..(i - 1) :
                           xfer.steps[j] = <<"insert", xfer.keys[n]>>

\* a transfer of three keys between two servers has returned
C15_Witness ==
    /\ xfer.pc = "done"
    /\ xfer.from_node # xfer.to_node
    /\ Len(xfer.keys) = 3
    /\ Len(xfer.steps) = 6
    /\ data[xfer.from_node] = EmptyDict

\* the step-by-step call ends in the stores that transfer_data computes
TransferAgrees ==
    xfer.pc = "done" =>
        data = transfer_data(xfer.data0, xfer.from_node, xfer.to_node,
                             {xfer.keys[n] : n \in 1..Len(xfer.keys)})

====
